---- MODULE Spec2Model ----
(***************************************************************************)
(* Parallel trapezoidal rule (trap_merged.c): p MPI processes run main();  *)
(* rank 0 parses and validates the arguments, broadcasts a, b and n, every *)
(* rank integrates f(x) = x*x over its part of [a,b] with Trap(), and      *)
(* MPI_Reduce sums the partial integrals into total at rank 0.             *)
(*                                                                         *)
(* Arithmetic.  The program's floats are modelled in exact arithmetic as   *)
(* fractions with a common denominator, of which the model stores the      *)
(* numerator.  With n the rank's own copy of the number of trapezoids:     *)
(*   a, b                  real values (integers in the inputs chosen)     *)
(*   h, local_a, local_b   numerator over n       (h = (b-a)/n)            *)
(*   f(x)                  numerator over n^2                              *)
(*   integral, total       numerator over 2*n^3                            *)
(* Rounding of the float operations is not modelled.                       *)
(***************************************************************************)
EXTENDS Integers, FiniteSets, Sequences, TLC

\* Bounds of the inputs explored.
MaxP == 3          \* number of processes p ranges over 1..MaxP
MaxN == 5          \* command-line n ranges over 1..MaxN (and -5, 0, 10, text)
MaxW == 2          \* width b - a of the command-line interval ranges over 0..MaxW

\* Hardwired defaults of main().
DefaultA == 0
DefaultB == 1
DefaultN == 1024
\* Error code rank 0 gives MPI_Abort for bad input.
AbortInputCode == 1

VARIABLES
    p,          \* MPI_Comm_size: number of processes
    argc,       \* argument count of the launch (1: none, 4: a b n)
    argv,       \* [a, b, n]: the command-line arguments; a and b numeric, n a token
    pc,         \* pc[r]: position of rank r in main()
    a, b, n,    \* a[r], b[r], n[r]: each rank's own copies
    h,          \* h[r]
    local_n,    \* local_n[r]
    residual,   \* residual[r]
    local_a,    \* local_a[r]
    local_b,    \* local_b[r]
    integral,   \* integral[r]
    total,      \* total[r] (only rank 0's is the reduce result)
    bcast,      \* bcast[k]: <<>> or <<v>>, the value the root sent in the k-th MPI_Bcast
    arrived,    \* ranks whose contribution MPI_Reduce has combined
    acc,        \* running MPI_SUM of the contributions combined so far
    aborted,    \* MPI_Abort was called
    abortCode,  \* its error code
    diag,       \* diag[r]: <<>> or the "Process %d: ..." line of rank r
    printed,    \* <<>> or the estimate lines rank 0 printed
    printCount  \* number of times rank 0 printed the estimate

vars == <<p, argc, argv, pc, a, b, n, h, local_n, residual, local_a, local_b,
          integral, total, bcast, arrived, acc, aborted, abortCode, diag,
          printed, printCount>>

Ranks == 0 .. (p - 1)

\* A command-line token for n: a number, or text that is not a number.
NTokens ==
    [num : {TRUE}, val : {-5, 0, 10} \cup (1 .. MaxN)] \cup [num : {FALSE}, val : {0}]

\* The command lines explored: a in -1..1, b = a + w, and a token for n.
ArgLines ==
    {[a |-> x, b |-> x + w, n |-> t] : x \in -1 .. 1, w \in 0 .. MaxW, t \in NTokens}

\* atoi(): the number a token denotes, 0 when it is not a number.
atoi(tok) == IF tok.num THEN tok.val ELSE 0

\* C integer division and remainder (truncating toward zero), divisor > 0.
CDiv(x, y) == IF x >= 0 THEN x \div y ELSE -((-x) \div y)
CMod(x, y) == x - y * CDiv(x, y)

\* f(x) = x*x.  x is a numerator over n, the result a numerator over n^2.
f(x) == x * x

\* One pass of the body of Trap()'s loop: x = x + h; integral = integral + f(x);
\* integral is a numerator over 2*n^2, so adding f(x) adds 2 * its numerator.
TrapBody(st, hh) ==
    [x |-> st.x + hh, integral |-> st.integral + 2 * f(st.x + hh)]

\* Passes lo..hi of the loop, run in order from the state st = [x, integral].
\* The range is split in halves only to keep the depth of evaluation
\* logarithmic: the passes and their order are those of the for loop.  (A
\* function, so that the state handed on is a value at each application.)
TrapLoop[lo \in Int, hi \in Int, st \in [x : Int, integral : Int], hh \in Int] ==
    IF lo > hi THEN st
    ELSE IF lo = hi THEN TrapBody(st, hh)
    ELSE LET mid == (lo + hi) \div 2
         IN  TrapLoop[mid + 1, hi, TrapLoop[lo, mid, st, hh], hh]

\* Trap(): integral = (f(local_a) + f(local_b))/2.0; x = local_a;
\* for (i = 1; i <= local_n-1; i++) {...}; integral = integral*h.
Trap(loc_a, loc_b, loc_n, hh) ==
    TrapLoop[1, loc_n - 1, [x |-> loc_a, integral |-> f(loc_a) + f(loc_b)], hh].integral * hh

\* Mutant of InvalidN: the check written n < 0, letting n = 0 through.
InvalidN_negative(nn) == nn < 0

\* if (n <= 0): the input check of rank 0.
InvalidN(nn) == nn <= 0

\* Mutant of LocalN: the test written my_rank <= residual, one rank too many
\* getting an extra subinterval.
LocalN_inclusive(nn, pp, my_rank) ==
    IF my_rank <= CMod(nn, pp) THEN CDiv(nn, pp) + 1 ELSE CDiv(nn, pp)

\* Mutant of LocalN: the extra subintervals given to the highest ranks.
LocalN_highest(nn, pp, my_rank) ==
    IF my_rank >= pp - CMod(nn, pp) THEN CDiv(nn, pp) + 1 ELSE CDiv(nn, pp)

\* local_n = n/p; residual = n%p; if (my_rank < residual) local_n++;
LocalN(nn, pp, my_rank) ==
    IF my_rank < CMod(nn, pp) THEN CDiv(nn, pp) + 1 ELSE CDiv(nn, pp)

\* Mutant of LocalA: the else branch local_a += residual*h left out.
LocalA_noshift(aa, nn, hh, pp, my_rank) ==
    LET base == aa * nn + my_rank * CDiv(nn, pp) * hh
    IN  IF my_rank < CMod(nn, pp) THEN base + my_rank * hh ELSE base

\* local_a = a + my_rank*local_n*h;  then += my_rank*h  or  += residual*h.
\* (local_n is still n/p in the first assignment.)  Numerator over n.
LocalA(aa, nn, hh, pp, my_rank) ==
    LET base == aa * nn + my_rank * CDiv(nn, pp) * hh
    IN  IF my_rank < CMod(nn, pp)
        THEN base + my_rank * hh
        ELSE base + CMod(nn, pp) * hh

\* Mutant of BcastRecv: the rank goes on with its own value, not the root's.
BcastRecv_stale(sent, own) == own

\* The value a non-root rank's buffer holds when MPI_Bcast returns.
BcastRecv(sent, own) == sent

\* Mutant of MPI_SUM: the incoming value overwrites the sum so far.
MPI_SUM_last(x, y) == y

\* MPI_SUM
MPI_SUM(x, y) == x + y

\* Mutant of ReduceDone: the root goes on as soon as its own part is in.
ReduceDone_own(arr, pp) == 0 \in arr

\* Mutant of ReduceDone: the root waits for one contribution too many.
ReduceDone_offbyone(arr, pp) == arr = 0 .. pp

\* MPI_Reduce returns at the root once every rank of the communicator contributed.
ReduceDone(arr, pp) == arr = 0 .. (pp - 1)

Terminal == {"done", "aborted", "killed", "crashed"}

Init ==
    /\ p \in 1 .. MaxP
    /\ argc \in {1, 4}
    /\ argv \in ArgLines
    \* Without arguments argv[1..3] is not read: one value stands for it.
    /\ argc = 1 => argv = [a |-> 0, b |-> 0, n |-> [num |-> FALSE, val |-> 0]]
    /\ pc = [r \in Ranks |-> "args"]
    /\ a = [r \in Ranks |-> DefaultA]
    /\ b = [r \in Ranks |-> DefaultB]
    /\ n = [r \in Ranks |-> DefaultN]
    \* Uninitialised locals: never read before they are assigned.
    /\ h = [r \in Ranks |-> 0]
    /\ local_n = [r \in Ranks |-> 0]
    /\ residual = [r \in Ranks |-> 0]
    /\ local_a = [r \in Ranks |-> 0]
    /\ local_b = [r \in Ranks |-> 0]
    /\ integral = [r \in Ranks |-> 0]
    /\ total = [r \in Ranks |-> 0]
    /\ bcast = [k \in 1 .. 3 |-> <<>>]
    /\ arrived = {}
    /\ acc = 0
    /\ aborted = FALSE
    /\ abortCode = 0
    /\ diag = [r \in Ranks |-> <<>>]
    /\ printed = <<>>
    /\ printCount = 0

\* Lines 70-93: rank 0 reads the arguments and checks n; the other ranks skip the block.
ProcessArgs(r) ==
    /\ pc[r] = "args"
    /\ IF r = 0
       THEN LET na == IF argc > 1 THEN argv.a ELSE a[r]
                nb == IF argc > 1 THEN argv.b ELSE b[r]
                nn == IF argc > 1 THEN atoi(argv.n) ELSE n[r]
            IN  /\ a' = [a EXCEPT ![r] = na]
                /\ b' = [b EXCEPT ![r] = nb]
                /\ n' = [n EXCEPT ![r] = nn]
                /\ IF InvalidN(nn)
                   THEN /\ aborted' = TRUE
                        /\ abortCode' = AbortInputCode
                        /\ pc' = [pc EXCEPT ![r] = "aborted"]
                   ELSE /\ pc' = [pc EXCEPT ![r] = "bcast_a"]
                        /\ UNCHANGED <<aborted, abortCode>>
       ELSE /\ pc' = [pc EXCEPT ![r] = "bcast_a"]
            /\ UNCHANGED <<a, b, n, aborted, abortCode>>
    /\ UNCHANGED <<p, argc, argv, h, local_n, residual, local_a, local_b, integral,
                   total, bcast, arrived, acc, diag, printed, printCount>>

\* Line 95, MPI_Bcast(&a, ..., 0, ...): the root sends its a; any other rank
\* blocks until the root's broadcast is there and takes its value.
Bcast_a(r) ==
    /\ pc[r] = "bcast_a"
    /\ IF r = 0
       THEN /\ bcast' = [bcast EXCEPT ![1] = <<a[r]>>]
            /\ UNCHANGED a
       ELSE /\ bcast[1] # <<>>
            /\ a' = [a EXCEPT ![r] = BcastRecv(bcast[1][1], a[r])]
            /\ UNCHANGED bcast
    /\ pc' = [pc EXCEPT ![r] = "bcast_b"]
    /\ UNCHANGED <<p, argc, argv, b, n, h, local_n, residual, local_a, local_b,
                   integral, total, arrived, acc, aborted, abortCode, diag,
                   printed, printCount>>

\* Line 96, MPI_Bcast(&b, ...).
Bcast_b(r) ==
    /\ pc[r] = "bcast_b"
    /\ IF r = 0
       THEN /\ bcast' = [bcast EXCEPT ![2] = <<b[r]>>]
            /\ UNCHANGED b
       ELSE /\ bcast[2] # <<>>
            /\ b' = [b EXCEPT ![r] = BcastRecv(bcast[2][1], b[r])]
            /\ UNCHANGED bcast
    /\ pc' = [pc EXCEPT ![r] = "bcast_n"]
    /\ UNCHANGED <<p, argc, argv, a, n, h, local_n, residual, local_a, local_b,
                   integral, total, arrived, acc, aborted, abortCode, diag,
                   printed, printCount>>

\* Line 97, MPI_Bcast(&n, ...).
Bcast_n(r) ==
    /\ pc[r] = "bcast_n"
    /\ IF r = 0
       THEN /\ bcast' = [bcast EXCEPT ![3] = <<n[r]>>]
            /\ UNCHANGED n
       ELSE /\ bcast[3] # <<>>
            /\ n' = [n EXCEPT ![r] = BcastRecv(bcast[3][1], n[r])]
            /\ UNCHANGED bcast
    /\ pc' = [pc EXCEPT ![r] = "partition"]
    /\ UNCHANGED <<p, argc, argv, a, b, h, local_n, residual, local_a, local_b,
                   integral, total, arrived, acc, aborted, abortCode, diag,
                   printed, printCount>>

\* Lines 100-118: h, local_n, residual, local_a, local_b of rank r.
Partition(r) ==
    /\ pc[r] = "partition"
    /\ LET hh == b[r] - a[r]                    \* h = (b-a)/n, numerator over n
           ln == LocalN(n[r], p, r)
           la == LocalA(a[r], n[r], hh, p, r)
       IN  /\ h' = [h EXCEPT ![r] = hh]
           /\ residual' = [residual EXCEPT ![r] = CMod(n[r], p)]
           /\ local_n' = [local_n EXCEPT ![r] = ln]
           /\ local_a' = [local_a EXCEPT ![r] = la]
           /\ local_b' = [local_b EXCEPT ![r] = la + ln * hh]
    /\ pc' = [pc EXCEPT ![r] = "trap"]
    /\ UNCHANGED <<p, argc, argv, a, b, n, integral, total, bcast, arrived, acc,
                   aborted, abortCode, diag, printed, printCount>>

\* Lines 120-124: integral = Trap(...); printf("Process %d: ...").
CallTrap(r) ==
    /\ pc[r] = "trap"
    /\ integral' = [integral EXCEPT ![r] = Trap(local_a[r], local_b[r], local_n[r], h[r])]
    /\ diag' = [diag EXCEPT ![r] = <<r, local_n[r], local_a[r], local_b[r]>>]
    /\ pc' = [pc EXCEPT ![r] = "reduce"]
    /\ UNCHANGED <<p, argc, argv, a, b, n, h, local_n, residual, local_a, local_b,
                   total, bcast, arrived, acc, aborted, abortCode, printed, printCount>>

\* Line 141, MPI_Reduce(&integral, &total, 1, MPI_FLOAT, MPI_SUM, 0, ...): rank r
\* hands in its integral, which is combined in the order of arrival.  A rank
\* other than the root is then through; the root waits for the result.
Reduce(r) ==
    /\ pc[r] = "reduce"
    /\ arrived' = arrived \cup {r}
    /\ acc' = IF arrived = {} THEN integral[r] ELSE MPI_SUM(acc, integral[r])
    /\ pc' = [pc EXCEPT ![r] = IF r = 0 THEN "reduce_wait" ELSE "finalize"]
    /\ UNCHANGED <<p, argc, argv, a, b, n, h, local_n, residual, local_a, local_b,
                   integral, total, bcast, aborted, abortCode, diag, printed,
                   printCount>>

\* MPI_Reduce returns at the root: total holds the combined value.
ReduceReturn(r) ==
    /\ pc[r] = "reduce_wait"
    /\ ReduceDone(arrived, p)
    /\ total' = [total EXCEPT ![r] = acc]
    /\ pc' = [pc EXCEPT ![r] = "print"]
    /\ UNCHANGED <<p, argc, argv, a, b, n, h, local_n, residual, local_a, local_b,
                   integral, bcast, arrived, acc, aborted, abortCode, diag,
                   printed, printCount>>

\* Lines 144-156: rank 0 prints n, a, b, total and the true value
\* (pow(b,3)-pow(a,3))/3.0, kept as its numerator over 3.
Report(r) ==
    /\ pc[r] = "print"
    /\ printed' = [n |-> n[r], a |-> a[r], b |-> b[r], total |-> total[r],
                   true3 |-> b[r] * b[r] * b[r] - a[r] * a[r] * a[r]]
    /\ printCount' = printCount + 1
    /\ pc' = [pc EXCEPT ![r] = "finalize"]
    /\ UNCHANGED <<p, argc, argv, a, b, n, h, local_n, residual, local_a, local_b,
                   integral, total, bcast, arrived, acc, aborted, abortCode, diag>>

\* Line 158, MPI_Finalize(), and the end of main().
Finalize(r) ==
    /\ pc[r] = "finalize"
    /\ pc' = [pc EXCEPT ![r] = "done"]
    /\ UNCHANGED <<p, argc, argv, a, b, n, h, local_n, residual, local_a, local_b,
                   integral, total, bcast, arrived, acc, aborted, abortCode, diag,
                   printed, printCount>>

\* MPI_Abort(MPI_COMM_WORLD, 1) of line 91 takes down the other processes of
\* the communicator, each at whatever point it has reached.
AbortKill(r) ==
    /\ aborted
    /\ pc[r] \notin Terminal
    /\ pc' = [pc EXCEPT ![r] = "killed"]
    /\ UNCHANGED <<p, argc, argv, a, b, n, h, local_n, residual, local_a, local_b,
                   integral, total, bcast, arrived, acc, aborted, abortCode, diag,
                   printed, printCount>>

\* A process terminates on its own (a failure of the environment).
Crash(r) ==
    /\ pc[r] \notin Terminal
    /\ pc' = [pc EXCEPT ![r] = "crashed"]
    /\ UNCHANGED <<p, argc, argv, a, b, n, h, local_n, residual, local_a, local_b,
                   integral, total, bcast, arrived, acc, aborted, abortCode, diag,
                   printed, printCount>>

Next ==
    \/ \E r \in Ranks : ProcessArgs(r)
    \/ \E r \in Ranks : Bcast_a(r)
    \/ \E r \in Ranks : Bcast_b(r)
    \/ \E r \in Ranks : Bcast_n(r)
    \/ \E r \in Ranks : Partition(r)
    \/ \E r \in Ranks : CallTrap(r)
    \/ \E r \in Ranks : Reduce(r)
    \/ \E r \in Ranks : ReduceReturn(r)
    \/ \E r \in Ranks : Report(r)
    \/ \E r \in Ranks : Finalize(r)
    \/ \E r \in Ranks : AbortKill(r)
    \/ \E r \in Ranks : Crash(r)

Spec == Init /\ [][Next]_vars

\* The runs in which no process fails and every process keeps being scheduled.
NextLive ==
    \/ \E r \in Ranks : ProcessArgs(r)
    \/ \E r \in Ranks : Bcast_a(r)
    \/ \E r \in Ranks : Bcast_b(r)
    \/ \E r \in Ranks : Bcast_n(r)
    \/ \E r \in Ranks : Partition(r)
    \/ \E r \in Ranks : CallTrap(r)
    \/ \E r \in Ranks : Reduce(r)
    \/ \E r \in Ranks : ReduceReturn(r)
    \/ \E r \in Ranks : Report(r)
    \/ \E r \in Ranks : Finalize(r)
    \/ \E r \in Ranks : AbortKill(r)

\* Weak fairness of the ranks' steps taken together: as long as some rank can
\* take a step, one is taken.  It follows from every rank being scheduled.
SpecLive == Init /\ [][NextLive]_vars /\ WF_vars(NextLive)

(***************************************************************************)
(* Properties.                                                             *)
(***************************************************************************)

\* The arguments the run was started with, as rank 0 reads them.
InputA == IF argc > 1 THEN argv.a ELSE DefaultA
InputB == IF argc > 1 THEN argv.b ELSE DefaultB
InputN == IF argc > 1 THEN (IF argv.n.num THEN argv.n.val ELSE 0) ELSE DefaultN

\* Positions of main() after the partition (lines 100-118) and after Trap().
PastPartition == {"trap", "reduce", "reduce_wait", "print", "finalize", "done"}
PastTrap == {"reduce", "reduce_wait", "print", "finalize", "done"}
PastReduce == {"print", "finalize", "done"}

AllPartitioned == \A r \in Ranks : pc[r] \in PastPartition

\* fn[0] + ... + fn[k]
RECURSIVE SumRanks(_, _)
SumRanks(fn, k) == IF k < 0 THEN 0 ELSE fn[k] + SumRanks(fn, k - 1)

\* Sum of (x0 + i*hh)^2 for i in lo..hi.
RECURSIVE SumSquares(_, _, _, _)
SumSquares(lo, hi, x0, hh) ==
    IF lo > hi THEN 0
    ELSE IF lo = hi THEN (x0 + lo * hh) * (x0 + lo * hh)
    ELSE LET mid == (lo + hi) \div 2
         IN  SumSquares(lo, mid, x0, hh) + SumSquares(mid + 1, hi, x0, hh)

\* The composite trapezoidal estimate of x^2 with m steps of hh from x0
\* (x0, hh numerators over nn; the result a numerator over 2*nn^3):
\* h * ((f(x0) + f(x0 + m*h))/2 + sum of f(x0 + i*h) for i in 1..m-1).
RefEstimate(x0, m, hh) ==
    hh * (x0 * x0 + (x0 + m * hh) * (x0 + m * hh) + 2 * SumSquares(1, m - 1, x0, hh))

\* The partition as the closed form states it: the ranks below nn mod pp get
\* one subinterval more, and a rank starts after the subintervals of the ranks below it.
RefLocalN(nn, pp, r) == IF r < nn % pp THEN (nn \div pp) + 1 ELSE nn \div pp
RefStart(nn, pp, r) == r * (nn \div pp) + (IF r < nn % pp THEN r ELSE nn % pp)

\* C1 -- Partition completeness: once every rank has computed its partition
\* (n >= 1, p >= 1), the local_n of ranks 0..p-1 sum to exactly n.
PartitionComplete ==
    AllPartitioned => SumRanks(local_n, p - 1) = InputN

\* C1 witness: three ranks have partitioned an n that p does not divide.
PartitionCompleteWitness ==
    AllPartitioned /\ p = 3 /\ InputN = 5

\* C2 -- Partition contiguity: rank 0 starts at a, rank p-1 ends at b (n steps
\* of h from a), and local_b of rank r is local_a of rank r+1 (positions as
\* numerators over n, i.e. a*n + k*(b-a) for the step offset k).
PartitionContiguous ==
    \A r \in Ranks :
        pc[r] \in PastPartition =>
            /\ r = 0 => local_a[r] = InputA * InputN
            /\ r = p - 1 => local_b[r] = InputB * InputN
            /\ local_a[r] = InputA * InputN + RefStart(InputN, p, r) * (InputB - InputA)
            /\ (r < p - 1 /\ pc[r + 1] \in PastPartition) => local_b[r] = local_a[r + 1]

\* C2 witness: three ranks with a remainder, on an interval of non-zero width.
PartitionContiguousWitness ==
    AllPartitioned /\ p = 3 /\ InputN = 4 /\ InputB > InputA /\ InputA # 0

\* C3 -- Remainder tie-break: local_n is (n div p) + 1 for rank < n mod p and
\* n div p otherwise; exactly the lowest n mod p ranks get the extra
\* subinterval; n = 10, p = 3 gives [4, 3, 3].
RemainderTieBreak ==
    /\ \A r \in Ranks :
          pc[r] \in PastPartition =>
              /\ local_n[r] = (IF r < InputN % p THEN (InputN \div p) + 1 ELSE InputN \div p)
              /\ residual[r] = InputN % p
    /\ AllPartitioned =>
          {r \in Ranks : local_n[r] = (InputN \div p) + 1} = 0 .. ((InputN % p) - 1)
    /\ (AllPartitioned /\ InputN = 10 /\ p = 3) =>
          <<local_n[0], local_n[1], local_n[2]>> = <<4, 3, 3>>

\* C3 witness: n = 10 partitioned over p = 3.
RemainderTieBreakWitness ==
    AllPartitioned /\ InputN = 10 /\ p = 3

\* C4 -- Zero-width edge case: when p > n, a rank whose local_n is 0 has
\* local_a = local_b and the partial result Trap returns for it is exactly 0.
ZeroWidthContributesZero ==
    \A r \in Ranks :
        (pc[r] \in PastTrap /\ p > n[r] /\ local_n[r] = 0) =>
            (local_a[r] = local_b[r] /\ integral[r] = 0)

\* C5 -- Integration accuracy: the total delivered to rank 0 equals the
\* estimate of the single-process run, h*((f(a)+f(b))/2 + sum f(a+i*h), i in 1..n-1).
TotalEqualsSingleProcess ==
    pc[0] \in PastReduce =>
        total[0] = RefEstimate(InputA * InputN, InputN, InputB - InputA)

\* C6 -- Invalid input: with n <= 0 rank 0 aborts the group with code 1 before
\* any broadcast; no rank gets past the first broadcast, computes a partition,
\* calls Trap or the reduction, and nothing is printed.
InvalidInputAborts ==
    InputN <= 0 =>
        /\ \A r \in Ranks : pc[r] \in {"args", "bcast_a", "aborted", "killed", "crashed"}
        /\ pc[0] \in {"args", "aborted", "crashed"}
        /\ pc[0] = "aborted" => (aborted /\ abortCode = 1)
        /\ \A k \in 1 .. 3 : bcast[k] = <<>>
        /\ \A r \in Ranks : diag[r] = <<>>
        /\ arrived = {}
        /\ printed = <<>> /\ printCount = 0

\* C6 witness: n = -5 on three ranks, rank 0 has aborted and a rank was taken down.
InvalidInputAbortsWitness ==
    /\ p = 3 /\ InputN = -5
    /\ pc[0] = "aborted" /\ abortCode = 1
    /\ \E r \in Ranks : pc[r] = "killed"

\* C7 -- No partial total: rank 0 holds and prints total only after every rank
\* 0..p-1 contributed, the total is the sum of all p partial results, and when
\* a rank stopped before contributing rank 0 never gets past the reduction.
NoPartialTotal ==
    /\ (pc[0] \in PastReduce \/ printed # <<>>) =>
          /\ arrived = Ranks
          /\ total[0] = SumRanks(integral, p - 1)
    /\ printed # <<>> => printed.total = SumRanks(integral, p - 1)
    /\ (\E r \in Ranks : pc[r] \in {"crashed", "killed"} /\ r \notin arrived) =>
          (printed = <<>> /\ pc[0] \notin PastReduce)

\* C7 witness: three ranks, rank 0 printed a total to which every rank gave a
\* non-zero part.
NoPartialTotalWitness ==
    /\ p = 3 /\ printed # <<>>
    /\ \A r \in Ranks : integral[r] # 0

\* C8 -- Broadcast before partition: a rank that has computed h and its
\* partition holds the a, b and n rank 0 validated and broadcast, and computed
\* h from them, never from its own defaults.
BroadcastBeforePartition ==
    \A r \in Ranks :
        pc[r] \in PastPartition =>
            /\ \A k \in 1 .. 3 : bcast[k] # <<>>
            /\ a[r] = InputA /\ b[r] = InputB /\ n[r] = InputN
            /\ n[r] >= 1
            /\ h[r] = InputB - InputA

\* C8 witness: a worker other than rank 0 has partitioned with arguments that
\* all differ from the defaults.
BroadcastBeforePartitionWitness ==
    /\ p = 3 /\ pc[2] \in PastPartition
    /\ InputA # DefaultA /\ InputB # DefaultB /\ InputN # DefaultN

AllDone == \A r \in Ranks : pc[r] = "done"

\* C10 -- Termination: for n >= 1, with no crash and every rank scheduled,
\* every rank passes the broadcasts, Trap and the reduction and reaches the end
\* of main(), and rank 0 has printed the estimate exactly once.
Terminates ==
    /\ [](printCount <= 1)
    /\ (InputN >= 1) ~> (AllDone /\ printCount = 1)

\* C10 witness: all of three ranks are done, among them one with local_n = 0
\* and one with local_n = 1, and the estimate was printed once.
TerminatesWitness ==
    /\ p = 3 /\ AllDone /\ printCount = 1
    /\ \E r \in Ranks : local_n[r] = 0
    /\ \E r \in Ranks : local_n[r] = 1

====
